---- MODULE Spec2Model ----
(***************************************************************************)
(* Model of src/src/lib/changelog.ts: class Changelog.                     *)
(*                                                                         *)
(* One run() of a Changelog instance against a remote repository.  The     *)
(* remote (tag list, release list, branch history, closed pull requests)   *)
(* is fixed for the run; every awaited remote call is one step, and each   *)
(* iteration of a loop of the source is one step.  SHAs, tag names and     *)
(* titles are strings, pages are sequences, and the changelog body is the  *)
(* string the source builds by concatenation.                              *)
(*                                                                         *)
(* Two specifications share the steps and differ in the remotes they run   *)
(* against: Spec ranges over the tag and release lists (tag and release    *)
(* resolution), SpecAssembly over the closed pull requests (the commit     *)
(* window, the PR window and the assembly of the body).                    *)
(*                                                                         *)
(* The remote serves page p of a list as its p-th slice of RESULTS_PER_PAGE*)
(* items, counting from the value the source's cursors start at (0), and   *)
(* an empty page past the end of the list.                                 *)
(***************************************************************************)
EXTENDS Integers, Sequences, FiniteSets, TLC

\* ------------------------------------------------------------- bounds
\* The page size the source asks for (100 there, line 6), scaled down so
\* that lists of a few items span several pages.
RESULTS_PER_PAGE == 3
\* Closed pull requests of the remote: at most MaxPRs.
MaxPRs == 4
\* The tag and commit loops of the source have no exit on an empty page; the
\* model stops following them at these page numbers.
MaxTagPage == 4
MaxCommitPage == 5

\* ------------------------------------------------------------- the remote
\* What reading a missing property yields in the source's language.
Undefined == "undefined"

Min(a, b) == IF a < b THEN a ELSE b

\* The branch history the remote lists, newest first (the commits of the
\* assembler scenario of the specification).
History == <<"c5", "c4", "c3", "c2", "c1">>

\* The tag names of the remote, in the order it lists them.
TagNames == <<"v4", "v3", "v2", "v1">>

\* The commits a tag of the remote may point at: the two release points of
\* the assembler scenario (c4, c1), the commit c3 between them, and a commit
\* that is not on the branch.
TagShas == {"c4", "c3", "c1", "x"}

\* The tag lists of the remote: the first n of TagNames, each on one of
\* TagShas.
TagLists ==
    UNION { { [k \in 1..n |-> [name |-> TagNames[k], commit |-> [sha |-> f[k]]]] :
                f \in [1..n -> TagShas] } : n \in 0..Len(TagNames) }

RECURSIVE SubSeqs(_)
\* All subsequences (order kept) of a sequence.
SubSeqs(s) ==
    IF s = <<>> THEN { <<>> }
    ELSE LET rest == SubSeqs(Tail(s))
         IN  rest \cup { <<Head(s)>> \o r : r \in rest }

\* The release lists of the remote: releases in listed order, each with the
\* name of its tag; a release's tag may be absent from the tag list.
ReleaseLists ==
    { [k \in 1..Len(s) |-> [tag_name |-> s[k]]] : s \in SubSeqs(TagNames) }

\* A closed pull request of the remote: merged on c4, c3 or c1, or closed
\* without a merge (merged_at null) with a test merge commit.
PRKinds ==
    { [merge_commit_sha |-> c, merged_at |-> TRUE] : c \in {"c4", "c3", "c1"} }
        \cup { [merge_commit_sha |-> "c3", merged_at |-> FALSE] }

\* The closed-PR lists of the remote: n <= MaxPRs pull requests, the k-th
\* titled T<k>.
PRLists ==
    UNION { { [k \in 1..n |-> [title |-> "T" \o ToString(k),
                               merge_commit_sha |-> f[k].merge_commit_sha,
                               merged_at |-> f[k].merged_at]] :
                f \in [1..n -> PRKinds] } : n \in 0..MaxPRs }

\* The values of config.branch: no override, or the branch "release".
ConfigBranches == {"", "release"}

\* What the remote answers to get-repository: the response object, with the
\* repository (and its default branch) under data.
repositoryResponse == [status |-> "200", data |-> [default_branch |-> "main"]]

\* Reading property field of object obj.
Property(obj, field) == IF field \in DOMAIN obj THEN obj[field] ELSE Undefined

\* The remotes of Spec: every tag list and release list, with at most one
\* closed pull request, and no branch override.
ResolutionRemotes ==
    [tags : TagLists, releases : ReleaseLists, prs : { pl \in PRLists : Len(pl) <= 1 },
     branch : {""}]

\* The remotes of SpecAssembly: the releases v4 and v3 with their tags, on
\* any two commits of TagShas, with every closed-PR list, without and with
\* a branch override.
AssemblyRemotes ==
    [tags : { tl \in TagLists : Len(tl) = 2 },
     releases : { rl \in ReleaseLists : Len(rl) = 2 /\ rl[1].tag_name = TagNames[1]
                                                    /\ rl[2].tag_name = TagNames[2] },
     prs : PRLists,
     branch : ConfigBranches]

\* The remotes of SpecReturns: every tag list and release list, with one
\* merged pull request on c3, and no branch override.
ReturningRemotes ==
    [tags : TagLists, releases : ReleaseLists,
     prs : { pl \in PRLists : /\ Len(pl) = 1
                              /\ pl[1].merged_at
                              /\ pl[1].merge_commit_sha = "c3" },
     branch : {""}]

VARIABLES
    \* the remote repository
    tagList,            \* its tags, in list order
    releaseList,        \* its releases, in list order
    prList,             \* its closed pull requests on the branch, in list order
    \* the configuration of the run
    configBranch,       \* config.branch, "" when no override is configured
    \* fields of Changelog (lines 9-20)
    commits, commitPage, latestTagsCommit, previousTagsCommit,
    pullRequests, pullRequestPage, branch, changelogBody,
    \* position in run() and the locals of the method in progress
    pc,                 \* the step of run() to take next
    err,                \* the error that ended the run, "" if none
    tagName,            \* getLatestRelease, getPreviousRelease: tagName
    page,               \* the tag loops: page
    relI,               \* getPreviousRelease: i
    indexOfLatestTag, indexOfPreviousTag,   \* generateChangelog
    prI,                \* generateChangelog: i of the PR scan
    body,               \* generateChangelog: the local changelogBody
    contentResp,        \* getChangelogFileContent: the response to its get-content call
    \* history of the run
    tagReqs,            \* page numbers asked of list-tags in the search in progress
    commitReqs,         \* page numbers asked of list-commits, in order
    prReqs,             \* page numbers asked of list-pull-requests, in order
    included,           \* positions in pullRequests that gave a line, in order
    repoCalls,          \* the number of get-repository calls answered
    contentRef          \* the ref the get-content call was made at, "" before it

vars == <<tagList, releaseList, prList, commits, commitPage, latestTagsCommit,
          previousTagsCommit, pullRequests, pullRequestPage, branch,
          changelogBody, pc, err, tagName, page, relI, indexOfLatestTag,
          indexOfPreviousTag, prI, body, contentResp, tagReqs, commitReqs, prReqs,
          included, configBranch, repoCalls, contentRef>>

\* What is fixed for the run: the remote and the configuration.
remoteVars == <<tagList, releaseList, prList, configBranch>>

\* config.title and config.prefix (lines 34-35).
title == "Changelog"
prefix == "-"

\* ------------------------------------------------------------- helpers

\* The p-th page (from 0) of a remote list.
PageOf(list, p) ==
    SubSeq(list, p * RESULTS_PER_PAGE + 1, Min((p + 1) * RESULTS_PER_PAGE, Len(list)))

\* Array.prototype.indexOf: the first position (from 0) of x in s, or -1.
IndexOf(s, x) ==
    IF \E k \in 1..Len(s) : s[k] = x
    THEN (CHOOSE k \in 1..Len(s) : s[k] = x /\ \A m \in 1..(k - 1) : s[m] # x) - 1
    ELSE -1

\* getTags that drops its page argument and lists the first page each time.
getTags_firstPage(p) ==
    LET data == SubSeq(tagList, 1, Min(RESULTS_PER_PAGE, Len(tagList)))
    IN  [k \in 1..Len(data) |-> [name |-> data[k].name, commitSha |-> data[k].commit.sha]]

\* getTags(page): the page of the tag list, as {name, commitSha} (lines 139-152).
getTags(p) ==
    LET data == PageOf(tagList, p)
    IN  [k \in 1..Len(data) |-> [name |-> data[k].name, commitSha |-> data[k].commit.sha]]

\* (await this.getTags(page)).filter((tag) => tag.name === tagName)
\* (lines 93-95, 120-122).
releasesTag(p, name) == SelectSeq(getTags(p), LAMBDA tag : tag.name = name)

\* ------------------------------------------------------------- the run

\* The state after construction (lines 22-37), facing the remote r.
InitWith(r) ==
    /\ tagList = r.tags
    /\ releaseList = r.releases
    /\ prList = r.prs
    /\ configBranch = r.branch
    /\ commits = <<>>
    /\ commitPage = 0
    /\ latestTagsCommit = ""
    /\ previousTagsCommit = ""
    /\ pullRequests = <<>>
    /\ pullRequestPage = 0
    /\ branch = ""
    /\ changelogBody = ""
    /\ pc = "setBranch"
    /\ err = ""
    /\ tagName = ""
    /\ page = 0
    /\ relI = 0
    /\ indexOfLatestTag = -1
    /\ indexOfPreviousTag = -1
    /\ prI = 0
    /\ body = ""
    /\ contentResp = [kind |-> "none"]
    /\ tagReqs = <<>>
    /\ commitReqs = <<>>
    /\ prReqs = <<>>
    /\ included = <<>>
    /\ repoCalls = 0
    /\ contentRef = ""

Init == \E r \in ResolutionRemotes : InitWith(r)

InitAssembly == \E r \in AssemblyRemotes : InitWith(r)

InitReturns == \E r \in ReturningRemotes : InitWith(r)

\* setBranch (lines 69-77): this.branch is "" after construction (line 33),
\* whatever config.branch is.  The response of repos.get is read as
\* repository.default_branch, a property the response object does not have
\* (the name is under its data).
setBranch ==
    IF branch = ""
    THEN /\ branch' = Property(repositoryResponse, "default_branch")
         /\ repoCalls' = repoCalls + 1
    ELSE UNCHANGED <<branch, repoCalls>>

\* run(), line 58.
SetBranch ==
    /\ pc = "setBranch"
    /\ setBranch
    /\ pc' = "getLatestRelease"
    /\ UNCHANGED <<remoteVars, commits, commitPage, latestTagsCommit,
                   previousTagsCommit, pullRequests, pullRequestPage,
                   changelogBody, err, tagName, page, relI, indexOfLatestTag,
                   indexOfPreviousTag, prI, body, contentResp, contentRef, tagReqs,
                   commitReqs, prReqs, included>>

\* getLatestRelease, lines 84-89: the remote names one of its releases as
\* the latest (with no release the call fails, see RemoteCallFails).
GetLatestRelease ==
    /\ pc = "getLatestRelease"
    /\ \E k \in 1..Len(releaseList) : tagName' = releaseList[k].tag_name
    /\ page' = 0
    /\ tagReqs' = <<>>
    /\ pc' = "latestTags"
    /\ UNCHANGED <<remoteVars, repoCalls, commits, commitPage, latestTagsCommit,
                   previousTagsCommit, pullRequests, pullRequestPage, branch,
                   changelogBody, err, relI, indexOfLatestTag,
                   indexOfPreviousTag, prI, body, contentResp, contentRef, commitReqs,
                   prReqs, included>>

\* One iteration of the loop of getLatestRelease (lines 92-100).
LatestTags ==
    /\ pc = "latestTags"
    /\ page < MaxTagPage
    /\ tagReqs' = Append(tagReqs, page)
    /\ IF Len(releasesTag(page, tagName)) = 1
       THEN /\ latestTagsCommit' = releasesTag(page, tagName)[1].commitSha
            /\ pc' = "getPreviousRelease"
            /\ page' = page
       ELSE /\ page' = page + 1
            /\ UNCHANGED <<latestTagsCommit, pc>>
    /\ UNCHANGED <<remoteVars, repoCalls, commits, commitPage, previousTagsCommit,
                   pullRequests, pullRequestPage, branch, changelogBody, err,
                   tagName, relI, indexOfLatestTag, indexOfPreviousTag, prI,
                   body, contentResp, contentRef, commitReqs, prReqs, included>>

\* getPreviousRelease, lines 109-113: list the releases.
GetPreviousRelease ==
    /\ pc = "getPreviousRelease"
    /\ relI' = 0
    /\ pc' = "prevRelease"
    /\ UNCHANGED <<remoteVars, repoCalls, commits, commitPage, latestTagsCommit,
                   previousTagsCommit, pullRequests, pullRequestPage, branch,
                   changelogBody, err, tagName, page, indexOfLatestTag,
                   indexOfPreviousTag, prI, body, contentResp, contentRef, tagReqs,
                   commitReqs, prReqs, included>>

\* The head of an iteration of the release loop (lines 116-118):
\* releases.data[i] is undefined past the end of the list, and reading its
\* tag_name throws a TypeError.
PrevRelease ==
    /\ pc = "prevRelease"
    /\ IF relI >= Len(releaseList)
       THEN /\ pc' = "failed"
            /\ err' = "TypeError"
            /\ UNCHANGED <<tagName, page, tagReqs>>
       ELSE /\ tagName' = releaseList[relI + 1].tag_name
            /\ page' = 0
            /\ tagReqs' = <<>>
            /\ pc' = "prevTags"
            /\ err' = err
    /\ UNCHANGED <<remoteVars, repoCalls, commits, commitPage, latestTagsCommit,
                   previousTagsCommit, pullRequests, pullRequestPage, branch,
                   changelogBody, relI, indexOfLatestTag, indexOfPreviousTag,
                   prI, body, contentResp, contentRef, commitReqs, prReqs, included>>

\* The comparison made against the field that is still unset.
differsFromLatest_wrongField(releaseSha) == releaseSha # previousTagsCommit

\* releaseSha !== this.latestTagsCommit (line 128).
differsFromLatest(releaseSha) == releaseSha # latestTagsCommit

\* One iteration of the tag loop of getPreviousRelease (lines 119-127) and,
\* once the release's tag is found, the comparison that ends or continues
\* the release loop (lines 128-131).
PrevTags ==
    /\ pc = "prevTags"
    /\ page < MaxTagPage
    /\ tagReqs' = Append(tagReqs, page)
    /\ IF Len(releasesTag(page, tagName)) = 1
       THEN LET releaseSha == releasesTag(page, tagName)[1].commitSha
            IN  IF differsFromLatest(releaseSha)
                THEN /\ previousTagsCommit' = releaseSha
                     /\ pc' = "getCommits"
                     /\ UNCHANGED <<relI, page>>
                ELSE /\ relI' = relI + 1
                     /\ pc' = "prevRelease"
                     /\ UNCHANGED <<previousTagsCommit, page>>
       ELSE /\ page' = page + 1
            /\ UNCHANGED <<previousTagsCommit, pc, relI>>
    /\ UNCHANGED <<remoteVars, repoCalls, commits, commitPage, latestTagsCommit,
                   pullRequests, pullRequestPage, branch, changelogBody, err,
                   tagName, indexOfLatestTag, indexOfPreviousTag, prI, body,
                   contentResp, contentRef, commitReqs, prReqs, included>>

\* The page of commit SHAs list-commits returns for this.commitPage
\* (lines 158-167).
listCommits(p) == PageOf(History, p)

\* getCommits that moves the cursor before it asks for the page.
getCommits_cursorFirst ==
    /\ commits' = commits \o listCommits(commitPage + 1)
    /\ commitPage' = commitPage + 1
    /\ commitReqs' = Append(commitReqs, commitPage + 1)

\* getCommits that puts the fetched page in front of the cached commits.
getCommits_prepend ==
    /\ commits' = listCommits(commitPage) \o commits
    /\ commitPage' = commitPage + 1
    /\ commitReqs' = Append(commitReqs, commitPage)

\* getCommits (lines 157-175): what it does to commits, commitPage and the
\* log of requested pages.
getCommits ==
    /\ commits' = commits \o listCommits(commitPage)
    /\ commitPage' = commitPage + 1
    /\ commitReqs' = Append(commitReqs, commitPage)

\* run(), line 61: the first getCommits.
GetCommits ==
    /\ pc = "getCommits"
    /\ getCommits
    /\ pc' = "getPullRequests"
    /\ UNCHANGED <<remoteVars, repoCalls, latestTagsCommit, previousTagsCommit,
                   pullRequests, pullRequestPage, branch, changelogBody, err,
                   tagName, page, relI, indexOfLatestTag, indexOfPreviousTag,
                   prI, body, contentResp, contentRef, tagReqs, prReqs, included>>

\* Every closed pull request of a page as a PullRequest value, merged or not.
mergedPullRequests_unfiltered(data) ==
    [k \in 1..Len(data) |-> [title |-> data[k].title,
                             commitSha |-> data[k].merge_commit_sha]]

\* The merged pull requests of a page of closed ones, as PullRequest values
\* (lines 189-201).
mergedPullRequests(data) ==
    LET merged == SelectSeq(data, LAMBDA pullRequest : pullRequest.merged_at)
    IN  [k \in 1..Len(merged) |-> [title |-> merged[k].title,
                                   commitSha |-> merged[k].merge_commit_sha]]

\* The page of closed pull requests pulls.list returns (lines 181-188).
listPullRequests(p) == PageOf(prList, p)

\* getPullRequests (lines 180-209).
getPullRequests ==
    /\ pullRequests' = pullRequests \o mergedPullRequests(listPullRequests(pullRequestPage))
    /\ pullRequestPage' = pullRequestPage + 1
    /\ prReqs' = Append(prReqs, pullRequestPage)

\* run(), line 62: the one getPullRequests of a run, followed by the start
\* of generateChangelog (line 215).
GetPullRequests ==
    /\ pc = "getPullRequests"
    /\ getPullRequests
    /\ body' = ""
    /\ pc' = "genSearch"
    /\ UNCHANGED <<remoteVars, repoCalls, commits, commitPage, latestTagsCommit,
                   previousTagsCommit, branch, changelogBody, err, tagName,
                   page, relI, indexOfLatestTag, indexOfPreviousTag, prI,
                   contentResp, contentRef, tagReqs, commitReqs, included>>

\* One iteration of the commit loop of generateChangelog (lines 220-230).
GenSearch ==
    /\ pc = "genSearch"
    /\ IF IndexOf(commits, previousTagsCommit) = -1
       THEN /\ commitPage < MaxCommitPage
            /\ getCommits
            /\ UNCHANGED <<pc, indexOfLatestTag, indexOfPreviousTag, prI>>
       ELSE /\ indexOfLatestTag' = IndexOf(commits, latestTagsCommit)
            /\ indexOfPreviousTag' = IndexOf(commits, previousTagsCommit)
            /\ prI' = 0
            /\ pc' = "genScan"
            /\ UNCHANGED <<commits, commitPage, commitReqs>>
    /\ UNCHANGED <<remoteVars, repoCalls, latestTagsCommit, previousTagsCommit,
                   pullRequests, pullRequestPage, branch, changelogBody, err,
                   tagName, page, relI, body, contentResp, contentRef, tagReqs, prReqs,
                   included>>

\* The range test with the upper end of the range taken in.
outOfRange_upperInclusive(indexOfPullRequest) ==
    \/ indexOfPullRequest = -1
    \/ indexOfPullRequest < indexOfLatestTag
    \/ indexOfPullRequest > indexOfPreviousTag

\* The range test with the lower end of the range left out.
outOfRange_lowerExclusive(indexOfPullRequest) ==
    \/ indexOfPullRequest = -1
    \/ indexOfPullRequest <= indexOfLatestTag
    \/ indexOfPullRequest >= indexOfPreviousTag

\* The range test with the two ends of the range taken the other way round.
outOfRange_swapped(indexOfPullRequest) ==
    \/ indexOfPullRequest = -1
    \/ indexOfPullRequest < indexOfPreviousTag
    \/ indexOfPullRequest >= indexOfLatestTag

\* The test that ends the PR scan (lines 249-253).
outOfRange(indexOfPullRequest) ==
    \/ indexOfPullRequest = -1
    \/ indexOfPullRequest < indexOfLatestTag
    \/ indexOfPullRequest >= indexOfPreviousTag

\* The line without its line break.
line_noBreak(pullRequest) == prefix \o " " \o pullRequest.title

\* The line of a pull request (line 257).
line(pullRequest) == prefix \o " " \o pullRequest.title \o "\n"

\* An iteration of the PR scan that passes over an out-of-range pull request
\* and goes on with the next one.
GenScan_continue ==
    /\ pc = "genScan"
    /\ IF prI >= Len(pullRequests)
       THEN /\ pc' = "genContent"
            /\ UNCHANGED <<body, prI, included>>
       ELSE IF outOfRange(IndexOf(commits, pullRequests[prI + 1].commitSha))
       THEN /\ prI' = prI + 1
            /\ UNCHANGED <<body, pc, included>>
       ELSE /\ body' = body \o line(pullRequests[prI + 1])
            /\ included' = Append(included, prI)
            /\ prI' = prI + 1
            /\ pc' = pc
    /\ UNCHANGED <<remoteVars, repoCalls, commits, commitPage, latestTagsCommit,
                   previousTagsCommit, pullRequests, pullRequestPage, branch,
                   changelogBody, err, tagName, page, relI, indexOfLatestTag,
                   indexOfPreviousTag, contentResp, contentRef, tagReqs, commitReqs,
                   prReqs>>

\* One iteration of the PR scan of generateChangelog (lines 236-259).
GenScan ==
    /\ pc = "genScan"
    /\ IF prI >= Len(pullRequests)
       THEN /\ pc' = "genContent"
            /\ UNCHANGED <<body, prI, included>>
       ELSE IF outOfRange(IndexOf(commits, pullRequests[prI + 1].commitSha))
       THEN /\ pc' = "genContent"
            /\ UNCHANGED <<body, prI, included>>
       ELSE /\ body' = body \o line(pullRequests[prI + 1])
            /\ included' = Append(included, prI)
            /\ prI' = prI + 1
            /\ pc' = pc
    /\ UNCHANGED <<remoteVars, repoCalls, commits, commitPage, latestTagsCommit,
                   previousTagsCommit, pullRequests, pullRequestPage, branch,
                   changelogBody, err, tagName, page, relI, indexOfLatestTag,
                   indexOfPreviousTag, contentResp, contentRef, tagReqs, commitReqs,
                   prReqs>>

\* Buffer.from(content, "base64").toString() on the contents the remote may
\* hold for CHANGELOG.md (lines 285-288).
base64Decode(content) ==
    CASE content = "" -> ""
      [] content = "b2xkCg==" -> "old\n"

\* What the remote may answer to the get-content call (lines 273-278): an
\* error, a directory listing, an object without content, or a file.
ContentResponses ==
    { [kind |-> "throws"], [kind |-> "directory"], [kind |-> "nocontent"],
      [kind |-> "file", content |-> ""], [kind |-> "file", content |-> "b2xkCg=="] }

\* getChangelogFileContent whose contents has no initial value: what is
\* appended when no file content was read is the text of undefined.
getChangelogFileContent_noInitial(resp) ==
    IF resp.kind = "file" THEN base64Decode(resp.content) ELSE Undefined

\* getChangelogFileContent (lines 270-297) on the response resp.
getChangelogFileContent(resp) ==
    IF resp.kind = "file" THEN base64Decode(resp.content) ELSE ""

\* The prior content put in front of the new lines.
appendPrior_prepend(newLines, existsChangelogBody) == existsChangelogBody \o newLines

\* changelogBody += existsChangelogBody (line 263).
appendPrior(newLines, existsChangelogBody) == newLines \o existsChangelogBody

\* The end of generateChangelog (lines 262-267).
GenContent ==
    /\ pc = "genContent"
    /\ \E resp \in ContentResponses :
          /\ contentResp' = resp
          /\ contentRef' = previousTagsCommit
          /\ body' = appendPrior(body, getChangelogFileContent(resp))
    /\ changelogBody' = body'
    /\ pc' = "done"
    /\ UNCHANGED <<remoteVars, repoCalls, commits, commitPage, latestTagsCommit,
                   previousTagsCommit, pullRequests, pullRequestPage, branch,
                   err, tagName, page, relI, indexOfLatestTag,
                   indexOfPreviousTag, prI, tagReqs, commitReqs, prReqs,
                   included>>

\* get changelog (lines 42-44).
changelog == title \o "\n" \o changelogBody

\* get isEmpty that tests the changelog (title and body) for emptiness.
isEmpty_ofChangelog == changelog = ""

\* get isEmpty (lines 49-52): the body is the empty string.
isEmpty == changelogBody = ""

\* The steps of run() that await a remote call outside a try block.
AtRemoteCall ==
    \/ pc = "setBranch" /\ branch = ""
    \/ pc \in {"getLatestRelease", "latestTags", "getPreviousRelease", "prevTags",
               "getCommits", "getPullRequests"}
    \/ pc = "genSearch" /\ IndexOf(commits, previousTagsCommit) = -1

\* A rejected remote call that is caught and logged, run() going on with
\* the call still to make.
RemoteCallFails_swallowed ==
    /\ AtRemoteCall
    /\ err' = "RemoteApiError"
    /\ UNCHANGED <<remoteVars, repoCalls, commits, commitPage, latestTagsCommit,
                   previousTagsCommit, pullRequests, pullRequestPage, branch,
                   changelogBody, pc, tagName, page, relI, indexOfLatestTag,
                   indexOfPreviousTag, prI, body, contentResp, contentRef,
                   tagReqs, commitReqs, prReqs, included>>

\* A remote call rejects: nothing catches it, and run() rejects (lines 57-64).
RemoteCallFails ==
    /\ AtRemoteCall
    /\ pc' = "failed"
    /\ err' = "RemoteApiError"
    /\ UNCHANGED <<remoteVars, repoCalls, commits, commitPage, latestTagsCommit,
                   previousTagsCommit, pullRequests, pullRequestPage, branch,
                   changelogBody, tagName, page, relI, indexOfLatestTag,
                   indexOfPreviousTag, prI, body, contentResp, contentRef, tagReqs,
                   commitReqs, prReqs, included>>

Next ==
    \/ SetBranch
    \/ GetLatestRelease
    \/ LatestTags
    \/ GetPreviousRelease
    \/ PrevRelease
    \/ PrevTags
    \/ GetCommits
    \/ GetPullRequests
    \/ GenSearch
    \/ GenScan
    \/ GenContent
    \/ RemoteCallFails

Spec == Init /\ [][Next]_vars

SpecAssembly == InitAssembly /\ [][Next]_vars

\* The steps of a run whose remote calls all return.
NextReturns ==
    \/ SetBranch
    \/ GetLatestRelease
    \/ LatestTags
    \/ GetPreviousRelease
    \/ PrevRelease
    \/ PrevTags
    \/ GetCommits
    \/ GetPullRequests
    \/ GenSearch
    \/ GenScan
    \/ GenContent

\* A run whose remote calls all return: each awaited call resolves and the
\* one thread of run() goes on with its next step, so a step that can be
\* taken is taken.
SpecReturns == InitReturns /\ [][NextReturns]_vars /\ WF_vars(NextReturns)

\* ------------------------------------------------------------- claims
\* What the remote holds, read directly (not through pages).

\* The tag named name is in the remote's tag list.
TagPresent(name) == \E k \in 1..Len(tagList) : tagList[k].name = name

\* Its position there (from 1), its commit, and the page that holds it.
TagPos(name) == CHOOSE k \in 1..Len(tagList) : tagList[k].name = name
ShaOfTag(name) == tagList[TagPos(name)].commit.sha
PageHolding(name) == (TagPos(name) - 1) \div RESULTS_PER_PAGE

\* The run is inside one of the two tag loops.
InTagSearch == pc \in {"latestTags", "prevTags"}

\* C1: a tag search for a name that is on no page of the tag list stops with
\* an error after a bounded number of list-tags calls: it requests no page
\* after one that came back empty (the end of the list), so every page it
\* requested before its last request held tags.
C1_TagSearchStopsOnMissingTag ==
    ~TagPresent(tagName)
        => \A k \in 1..(Len(tagReqs) - 1) : getTags(tagReqs[k]) # <<>>

\* C2: in generateChangelog, once a commit page fetched by the search for
\* the previous tag's commit has come back empty, the run has failed
\* ("commit not reachable on branch") and requests no further commit page.
\* commitReqs[1] is the fetch of run(); the later ones are the search's.
C2_CommitSearchFailsAtEnd ==
    (\E k \in 2..Len(commitReqs) : listCommits(commitReqs[k]) = <<>>)
        => /\ pc = "failed"
           /\ \A k \in 2..(Len(commitReqs) - 1) : listCommits(commitReqs[k]) # <<>>

\* The commit the k-th listed release's tag points at.
ReleaseSha(k) == ShaOfTag(releaseList[k].tag_name)

\* C3: once getPreviousRelease has set previousTagsCommit, it is the commit
\* of the first listed release whose commit differs from latestTagsCommit:
\* that release is the one the loop stands at, and every release listed
\* before it is on latestTagsCommit.
C3_PreviousIsFirstDiffering ==
    previousTagsCommit # ""
        => /\ relI < Len(releaseList)
           /\ TagPresent(releaseList[relI + 1].tag_name)
           /\ previousTagsCommit = ReleaseSha(relI + 1)
           /\ previousTagsCommit # latestTagsCommit
           /\ \A m \in 1..relI :
                 /\ TagPresent(releaseList[m].tag_name)
                 /\ ReleaseSha(m) = latestTagsCommit

\* C3's example: releases [A(sha1), B(sha1), C(sha2)] with A the latest
\* resolve to C's commit.
C3_Witness ==
    /\ pc = "getCommits"
    /\ Len(releaseList) = 3
    /\ \A k \in 1..3 : TagPresent(releaseList[k].tag_name)
    /\ [k \in 1..3 |-> ReleaseSha(k)] = <<"c4", "c4", "c1">>
    /\ tagName = releaseList[3].tag_name
    /\ latestTagsCommit = "c4"
    /\ previousTagsCommit = "c1"
    /\ relI = 2

\* C4: when the release loop runs off the end of the list (no listed release
\* differs from the latest), the run fails with an explicit "no previous
\* release" error and previousTagsCommit stays unset.
C4_NoPreviousReleaseError ==
    [][(pc = "prevRelease" /\ relI >= Len(releaseList))
          => (pc' = "failed" /\ err' = "NoPreviousRelease" /\ previousTagsCommit' = "")]_vars

\* C5: a tag search asks for the pages 0, 1, 2, ... in that order, never
\* goes past the page that holds the tag it looks for, and ends with that
\* tag's own commit, whichever page holds it.
C5_TagResolvesOnAnyPage ==
    /\ tagReqs = [k \in 1..Len(tagReqs) |-> k - 1]
    /\ (InTagSearch /\ TagPresent(tagName)) => page <= PageHolding(tagName)
    /\ pc = "getPreviousRelease"
          => (TagPresent(tagName) /\ latestTagsCommit = ShaOfTag(tagName))
    /\ pc = "getCommits"
          => (TagPresent(tagName) /\ previousTagsCommit = ShaOfTag(tagName))

\* A tag on the second page of the tag list has been resolved, to a commit
\* other than that of the first tag of the first page.
C5_Witness ==
    /\ pc = "getPreviousRelease"
    /\ TagPresent(tagName)
    /\ PageHolding(tagName) = 1
    /\ tagReqs = <<0, 1>>
    /\ latestTagsCommit = ShaOfTag(tagName)
    /\ latestTagsCommit # tagList[1].commit.sha

\* The position in the commit window of a pull request's merge commit, and
\* whether it lies in the half-open range [idxLatest, idxPrev).
PullRequestIndex(pullRequest) == IndexOf(commits, pullRequest.commitSha)
InWindowRange(pullRequest) ==
    /\ PullRequestIndex(pullRequest) # -1
    /\ indexOfLatestTag <= PullRequestIndex(pullRequest)
    /\ PullRequestIndex(pullRequest) < indexOfPreviousTag

\* The PR scan of generateChangelog is over.
ScanOver == pc \in {"genContent", "done"}

\* The assembler scenario of the specification: commits [c5,c4,c3,c2,c1],
\* the latest tag on c4 (index 1), the previous tag on c1 (index 4), and the
\* merged pull requests [c4, c3, c1] in the PR window.
Scenario ==
    /\ commits = <<"c5", "c4", "c3", "c2", "c1">>
    /\ latestTagsCommit = "c4" /\ indexOfLatestTag = 1
    /\ previousTagsCommit = "c1" /\ indexOfPreviousTag = 4
    /\ [k \in 1..Len(pullRequests) |-> pullRequests[k].commitSha] = <<"c4", "c3", "c1">>

\* C6 as stated: in the scenario only the pull request on c3 (the second of
\* the window) gives a line; the one on c4, at idxLatest, gives none.
C6_ScenarioOnlyC3 ==
    (Scenario /\ pc = "genContent")
        => /\ included = <<1>>
           /\ body = prefix \o " " \o pullRequests[2].title \o "\n"

\* C6 as amended: in the scenario the pull requests on c4 (index 1, the lower
\* end of the range, included) and c3 give the lines, in that order; the one
\* on c1 (index 4, the upper end, excluded) gives none.
C6_ScenarioC4AndC3 ==
    (Scenario /\ pc = "genContent")
        => /\ included = <<0, 1>>
           /\ body = prefix \o " " \o pullRequests[1].title \o "\n"
                        \o prefix \o " " \o pullRequests[2].title \o "\n"

\* The scan of the scenario has ended.
C6_Witness == Scenario /\ pc = "genContent" /\ prI = 2

\* C7: every pull request that gave a line has its merge commit in the
\* commit window, at an index idx with idxLatest <= idx < idxPrev.
C7_LinesOnlyFromRange ==
    \A k \in 1..Len(included) : InWindowRange(pullRequests[included[k] + 1])

\* A run with a line from a pull request at idxLatest, whose scan ended at a
\* pull request at idxPrev.
C7_Witness ==
    /\ ScanOver
    /\ Len(included) >= 1
    /\ PullRequestIndex(pullRequests[included[1] + 1]) = indexOfLatestTag
    /\ prI < Len(pullRequests)
    /\ PullRequestIndex(pullRequests[prI + 1]) = indexOfPreviousTag

RECURSIVE LinesOf(_, _)
\* prefix + " " + title + "\n" over the pull requests at the positions
\* (from 0) of incl, concatenated in the order of incl.
LinesOf(prs, incl) ==
    IF incl = <<>> THEN ""
    ELSE prefix \o " " \o prs[Head(incl) + 1].title \o "\n" \o LinesOf(prs, Tail(incl))

\* C8: the newly generated part of the body is the concatenation of the
\* lines of the pull requests that gave a line, one each, in PR-window
\* order; those are taken without gap from the head of the window, and the
\* finished body starts with exactly these lines.
C8_BodyIsLinesInOrder ==
    /\ included = [k \in 1..Len(included) |-> k - 1]
    /\ Len(included) <= Len(pullRequests)
    /\ pc \in {"genScan", "genContent"} => body = LinesOf(pullRequests, included)
    /\ pc = "done"
          => changelogBody
                = LinesOf(pullRequests, included) \o getChangelogFileContent(contentResp)

\* A finished scan that gave two lines, the second from the third closed
\* pull request of the remote (the second is unmerged).
C8_Witness ==
    /\ pc = "genContent"
    /\ Len(included) = 2
    /\ Len(pullRequests) = 2
    /\ body = "- T1\n- T3\n"

RECURSIVE LeadingInRange(_)
\* The number of pull requests at the head of prs that are in range.
LeadingInRange(prs) ==
    IF prs = <<>> \/ ~InWindowRange(Head(prs)) THEN 0
    ELSE 1 + LeadingInRange(Tail(prs))

\* C9: PR pages are fetched on demand, so the scan goes on over the merged
\* pull requests of the later pages: when it is over, every merged pull
\* request of the remote before the first out-of-range one has given a line.
C9_ScanCoversLaterPages ==
    ScanOver => Len(included) = LeadingInRange(mergedPullRequests(prList))

RECURSIVE CommitPages(_)
\* The pages of commits of the page numbers reqs, concatenated in order.
CommitPages(reqs) ==
    IF reqs = <<>> THEN <<>> ELSE listCommits(Head(reqs)) \o CommitPages(Tail(reqs))

RECURSIVE PullRequestPages(_)
\* The merged pull requests of the pages reqs of the remote's closed pull
\* requests, concatenated in order.
PullRequestPages(reqs) ==
    IF reqs = <<>> THEN <<>>
    ELSE mergedPullRequests(listPullRequests(Head(reqs))) \o PullRequestPages(Tail(reqs))

\* C10: the commit pages requested so far are 0, 1, ..., commitPage - 1 in
\* that order, the PR pages 0, ..., pullRequestPage - 1: each call asked for
\* the page at the cursor and moved the cursor by one, so no page number was
\* asked twice; and each cached list is the concatenation of its fetched
\* pages in fetch order.
C10_PaginationMonotonic ==
    /\ commitReqs = [k \in 1..commitPage |-> k - 1]
    /\ prReqs = [k \in 1..pullRequestPage |-> k - 1]
    /\ commits = CommitPages(commitReqs)
    /\ pullRequests = PullRequestPages(prReqs)

\* Two commit pages and one PR page have been fetched, the second PR of
\* the page being an unmerged one.
C10_Witness ==
    /\ commitReqs = <<0, 1>>
    /\ commits = History
    /\ prReqs = <<0>>
    /\ Len(prList) = 3 /\ ~prList[2].merged_at
    /\ Len(pullRequests) = 2

\* The prior changelog content the run read (empty before the call).
PriorContent == getChangelogFileContent(contentResp)

\* C11: when the get-content call throws, returns a directory listing or
\* returns an object without content, generateChangelog still completes
\* without error and the body is exactly the lines of the pull requests,
\* with nothing after them.
C11_PriorFetchBestEffort ==
    contentResp.kind \in {"throws", "directory", "nocontent"}
        => /\ pc = "done"
           /\ err = ""
           /\ changelogBody = LinesOf(pullRequests, included)

\* The get-content call threw in a run that gave a line.
C11_Witness ==
    /\ pc = "done"
    /\ contentResp.kind = "throws"
    /\ changelogBody = "- T1\n"

\* C12 as stated: after a completed run isEmpty is true exactly when no
\* pull request gave a line, whatever prior content was appended.
C12_IsEmptyIffNoLines ==
    pc = "done" => (isEmpty <=> included = <<>>)

\* C12 as amended: after a completed run isEmpty is true exactly when no
\* pull request gave a line and the appended prior content is empty.
C12_IsEmptyIffWholeBodyEmpty ==
    pc = "done" => (isEmpty <=> (included = <<>> /\ PriorContent = ""))

\* A completed run with no line and a non-empty prior changelog: isEmpty
\* is false.
C12_Witness ==
    /\ pc = "done"
    /\ included = <<>>
    /\ PriorContent = "old\n"
    /\ ~isEmpty

\* setBranch has returned.
BranchSet == pc \notin {"setBranch", "failed"}

\* C13: with a branch override configured no get-repository call is made
\* and the override is the branch of the run; without one the default
\* branch is fetched by one call and kept as the branch of the run.
C13_BranchResolution ==
    BranchSet
        => IF configBranch # ""
           THEN repoCalls = 0 /\ branch = configBranch
           ELSE repoCalls = 1 /\ branch = repositoryResponse.data.default_branch

\* C14: once a remote call of run() has failed the run has stopped for
\* good: no step follows (no retry, no later call), the get-content call
\* was never made, and the body is empty (isEmpty is true).
C14_RemoteFailureAborts ==
    /\ [](err = "RemoteApiError"
            => /\ pc = "failed"
               /\ contentResp.kind = "none"
               /\ changelogBody = ""
               /\ isEmpty)
    /\ [][err = "RemoteApiError" => UNCHANGED vars]_vars

\* The list-commits call of the search in generateChangelog has failed,
\* after the PR window gave the run something to write.
C14_Witness ==
    /\ pc = "failed"
    /\ err = "RemoteApiError"
    /\ commitReqs = <<0>>
    /\ prReqs = <<0>>
    /\ Len(pullRequests) >= 1
    /\ isEmpty

RECURSIVE ClosedPages(_)
\* The closed pull requests of the pages reqs of the remote, merged or not,
\* concatenated in order.
ClosedPages(reqs) ==
    IF reqs = <<>> THEN <<>> ELSE listPullRequests(Head(reqs)) \o ClosedPages(Tail(reqs))

\* C15: the PR window is, in order, the merged ones among the closed pull
\* requests fetched so far: there is an order-preserving map of the window
\* onto the merged positions of the fetched pages under which title and
\* merge commit agree, so no unmerged pull request is in the window, no
\* merged one is missing and the relative order is kept.
C15_WindowIsMergedInOrder ==
    LET fetched == ClosedPages(prReqs)
        mergedAt == {j \in 1..Len(fetched) : fetched[j].merged_at}
    IN  \E f \in [1..Len(pullRequests) -> 1..Len(fetched)] :
            /\ \A k \in 1..Len(pullRequests) :
                  /\ fetched[f[k]].merged_at
                  /\ fetched[f[k]].title = pullRequests[k].title
                  /\ fetched[f[k]].merge_commit_sha = pullRequests[k].commitSha
            /\ \A k, l \in 1..Len(pullRequests) : k < l => f[k] < f[l]
            /\ {f[k] : k \in 1..Len(pullRequests)} = mergedAt

\* The fetched page holds a merged, an unmerged and a merged pull request;
\* the window holds the first and the third, in that order.
C15_Witness ==
    /\ prReqs = <<0>>
    /\ Len(prList) >= 3
    /\ prList[1].merged_at /\ ~prList[2].merged_at /\ prList[3].merged_at
    /\ [k \in 1..Len(pullRequests) |-> pullRequests[k].title] = <<"T1", "T3">>

\* C16: when the PR scan is over, the pull requests that gave a line are
\* exactly those of the longest head of the PR window whose merge commits
\* are all in range: the scan stopped at the first pull request out of
\* range or not in the commit window, and none after it gave a line.
C16_LinesAreLongestInRangePrefix ==
    ScanOver
        => /\ included = [k \in 1..LeadingInRange(pullRequests) |-> k - 1]
           /\ prI = LeadingInRange(pullRequests)

\* The window holds a pull request in range, one at idxPrev and one in
\* range again; the scan is over with one line, the third gave none.
C16_Witness ==
    /\ ScanOver
    /\ Len(pullRequests) = 3
    /\ InWindowRange(pullRequests[1])
    /\ ~InWindowRange(pullRequests[2])
    /\ InWindowRange(pullRequests[3])
    /\ included = <<0>>

\* C17: every step leaves the cached commits as a head of the new commit
\* window, so a SHA in the window keeps its index; and from a state with
\* the previous tag's SHA in the window no step fetches commits: commits,
\* commitPage and the requested pages are unchanged.
C17_CommitWindowAppendOnly ==
    [][ /\ Len(commits') >= Len(commits)
        /\ SubSeq(commits', 1, Len(commits)) = commits
        /\ \A k \in 1..Len(commits) :
              IndexOf(commits', commits[k]) = IndexOf(commits, commits[k])
        /\ IndexOf(commits, previousTagsCommit) # -1
              => UNCHANGED <<commits, commitPage, commitReqs>> ]_vars

\* The previous tag's commit was found on the second commit page, and the
\* run went on to its end with two commit pages fetched.
C17_Witness ==
    /\ pc = "done"
    /\ previousTagsCommit = "c1"
    /\ IndexOf(commits, previousTagsCommit) = 4
    /\ commitPage = 2
    /\ commitReqs = <<0, 1>>

\* C18: the get-content call is made only when the PR scan is over, for
\* the ref previousTagsCommit, and its content goes behind the new lines:
\* before the call nothing is written and the run is not finished; after
\* it the body is the lines of the pull requests followed by the prior
\* content.
C18_PriorContentLastAtPreviousTag ==
    IF contentResp.kind = "none"
    THEN /\ pc # "done"
         /\ contentRef = ""
         /\ changelogBody = ""
    ELSE /\ pc = "done"
         /\ prI = LeadingInRange(pullRequests)
         /\ contentRef = previousTagsCommit
         /\ contentRef \in {History[k] : k \in 1..Len(History)}
         /\ changelogBody = LinesOf(pullRequests, included) \o PriorContent

\* A finished run with one new line and the prior content "old\n" read at
\* the previous tag's commit c1.
C18_Witness ==
    /\ pc = "done"
    /\ contentRef = "c1"
    /\ included = <<0>>
    /\ PriorContent = "old\n"
    /\ changelogBody = "- T1\nold\n"

\* C19: when the previous tag's commit is not behind the latest tag's in
\* the commit window (0 <= idxPrev <= idxLatest), the PR scan stops at the
\* first pull request: no line is generated and the finished body is the
\* prior changelog content alone.
C19_InvertedRangeGivesNoLine ==
    (ScanOver /\ 0 <= indexOfPreviousTag /\ indexOfPreviousTag <= indexOfLatestTag)
        => /\ included = <<>>
           /\ prI = 0
           /\ body = IF pc = "done" THEN PriorContent ELSE ""
           /\ pc = "done" => changelogBody = PriorContent

\* The latest tag is on c3 (index 2), the previous on c4 (index 1), the
\* window's first pull request was merged on c4, and the finished body is
\* the prior content.
C19_Witness ==
    /\ pc = "done"
    /\ indexOfLatestTag = 2
    /\ indexOfPreviousTag = 1
    /\ Len(pullRequests) >= 1
    /\ PullRequestIndex(pullRequests[1]) = 1
    /\ changelogBody = "old\n"

\* The remote lets a run with the latest release's tag named latest
\* complete: that tag is in the tag list; some listed release, with its tag
\* and those of the releases listed before it in the tag list, is on another
\* commit than latest while those before it are on the same; and that
\* commit is one of the branch.
Completable(latest) ==
    /\ TagPresent(latest)
    /\ \E i \in 1..Len(releaseList) :
          /\ \A j \in 1..i : TagPresent(releaseList[j].tag_name)
          /\ \A j \in 1..(i - 1) : ReleaseSha(j) = ShaOfTag(latest)
          /\ ReleaseSha(i) # ShaOfTag(latest)
          /\ ReleaseSha(i) \in {History[k] : k \in 1..Len(History)}

\* C20: when every remote call returns, a run that starts its search for
\* the latest release's tag on a remote where the tags of the latest and of
\* the scanned releases are listed, a listed release is on another commit
\* and that commit is on the branch, eventually completes with its body
\* set: the tag, commit and PR fetches made are finitely many.
C20_RunCompletes ==
    (pc = "latestTags" /\ Completable(tagName))
        ~> (pc = "done" /\ contentResp.kind # "none" /\ changelogBody = body)

\* A completed run that found the previous release's tag on the second tag
\* page and its commit on the second commit page.
C20_Witness ==
    /\ pc = "done"
    /\ tagReqs = <<0, 1>>
    /\ commitReqs = <<0, 1>>
    /\ prReqs = <<0>>
    /\ previousTagsCommit = "c1"
    /\ contentResp.kind # "none"
====
